---- MODULE Spec2Model ----
(***************************************************************************)
(* RFM (Recency, Frequency, Monetary) analysis of src/src/analytics/rfm.py,*)
(* the Transaction model of src/src/core/models.py and the dataset         *)
(* generator of src/src/analytics/data_generator.py.                       *)
(*                                                                         *)
(* Specifications:                                                         *)
(*   SegmentSpec      an RFMScore, whose `segment` property is a pure      *)
(*                    function of its three scores;                        *)
(*   Spec             an RFMAnalyzer applied to a transaction list;        *)
(*   ScenarioSpec     an RFMAnalyzer applied to the records of two known   *)
(*                    customers, with get_segment_summary in the chain;    *)
(*   SummarySpec      get_segment_summary applied to a list of RFMScore;   *)
(*   TransactionSpec  construction of a Transaction and its total_amount;  *)
(*   GeneratorSpec    BarDataGenerator.generate_dataset, loop by loop.     *)
(*                                                                         *)
(* Numbers.  A datetime is a whole number of ticks, TicksPerDay ticks to   *)
(* the day, so that timedelta.days is a floor division.  A Decimal amount  *)
(* is a whole number of cents.  A quantile boundary is a rational with     *)
(* denominator 5 and is carried as its numerator (see quantile).           *)
(***************************************************************************)
EXTENDS Integers, Sequences, FiniteSets, TLC

VARIABLES
    r_score,        \* RFMScore.r_score of the score object under test
    f_score,        \* RFMScore.f_score
    m_score,        \* RFMScore.m_score
    segment_ret,    \* value last read from RFMScore.segment ("" before a read)
    reference_date, \* RFMAnalyzer.reference_date
    transactions,   \* the transaction list handed to the analyzer
    last_call,      \* name of the analyzer method that ran last ("" at first)
    last_arg,       \* its customer_id argument
    ret,            \* what calculate_recency/frequency/monetary returned
    scores,         \* what calculate_rfm_scores returned
    skipped,        \* ids dropped by `continue` in the last calculate_rfm_scores
    raised,         \* exception the last call ended with ("" when it returned)
    summary,        \* what get_segment_summary returned
    boundaries,     \* the three quantile lists of the last calculate_rfm_scores
    fields,         \* arguments of the Transaction under construction
    tx_state,       \* "new", "accepted" or "rejected" (ValueError)
    tx_error,       \* message of the ValueError ("" when there is none)
    total_amount,   \* value last read from Transaction.total_amount
    args,           \* arguments of generate_dataset
    pc,             \* position in generate_dataset
    total_days,     \* generate_dataset's local total_days
    customers,      \* len(customers)
    customer_index, \* customers the outer loop has finished with
    num_txns,       \* num_txns of the customer in hand
    recency_days,   \* recency_days of the customer in hand
    loop_i,         \* i of the inner loop
    transaction_count, \* generate_dataset's local transaction_count
    txn_dates,      \* transaction_date values of the list `transactions`
    dataset         \* lengths of the two lists generate_dataset returned

score_vars == <<r_score, f_score, m_score, segment_ret>>
analyzer_vars == <<reference_date, transactions, last_call, last_arg, ret,
                   scores, skipped, raised, summary, boundaries>>
transaction_vars == <<fields, tx_state, tx_error, total_amount>>
generator_vars == <<args, pc, total_days, customers, customer_index, num_txns,
                    recency_days, loop_i, transaction_count, txn_dates,
                    dataset>>
vars == <<r_score, f_score, m_score, segment_ret, reference_date,
          transactions, last_call, last_arg, ret, scores, skipped, raised,
          summary, boundaries, fields, tx_state, tx_error, total_amount, args, pc,
          total_days, customers, customer_index, num_txns, recency_days,
          loop_i, transaction_count, txn_dates, dataset>>

(***************************************************************************)
(* RFMScore                                                                *)
(***************************************************************************)

\* The range of a score, "(1-5)".
ScoreRange == 1..5

\* segment with the "Can't Lose Them" branch tested right after "Champions".
segment_cant_lose_first(r, f, m) ==
    IF r >= 4 /\ f >= 4 /\ m >= 4 THEN "Champions"
    ELSE IF r <= 2 /\ f >= 4 /\ m >= 4 THEN "Can't Lose Them"
    ELSE IF f >= 4 /\ m >= 3 THEN "Loyal Customers"
    ELSE IF r >= 4 /\ f >= 2 /\ m >= 2 THEN "Potential Loyalists"
    ELSE IF r >= 4 /\ f <= 2 THEN "New Customers"
    ELSE IF r <= 2 /\ f >= 3 /\ m >= 3 THEN "At Risk"
    ELSE IF r <= 2 /\ f <= 2 /\ m >= 2 THEN "Hibernating"
    ELSE IF r <= 2 /\ f <= 2 /\ m <= 2 THEN "Lost"
    ELSE IF r <= 3 /\ f <= 3 THEN "About to Sleep"
    ELSE IF r >= 3 /\ f <= 3 /\ m <= 3 THEN "Promising"
    ELSE "Need Attention"

\* segment with the "Loyal Customers" branch tested after "At Risk".
segment_loyal_late(r, f, m) ==
    IF r >= 4 /\ f >= 4 /\ m >= 4 THEN "Champions"
    ELSE IF r >= 4 /\ f >= 2 /\ m >= 2 THEN "Potential Loyalists"
    ELSE IF r >= 4 /\ f <= 2 THEN "New Customers"
    ELSE IF r <= 2 /\ f >= 3 /\ m >= 3 THEN "At Risk"
    ELSE IF f >= 4 /\ m >= 3 THEN "Loyal Customers"
    ELSE IF r <= 2 /\ f >= 4 /\ m >= 4 THEN "Can't Lose Them"
    ELSE IF r <= 2 /\ f <= 2 /\ m >= 2 THEN "Hibernating"
    ELSE IF r <= 2 /\ f <= 2 /\ m <= 2 THEN "Lost"
    ELSE IF r <= 3 /\ f <= 3 THEN "About to Sleep"
    ELSE IF r >= 3 /\ f <= 3 /\ m <= 3 THEN "Promising"
    ELSE "Need Attention"

\* segment with the "Hibernating" threshold on m_score off by one.
segment_hibernating_any(r, f, m) ==
    IF r >= 4 /\ f >= 4 /\ m >= 4 THEN "Champions"
    ELSE IF f >= 4 /\ m >= 3 THEN "Loyal Customers"
    ELSE IF r >= 4 /\ f >= 2 /\ m >= 2 THEN "Potential Loyalists"
    ELSE IF r >= 4 /\ f <= 2 THEN "New Customers"
    ELSE IF r <= 2 /\ f >= 3 /\ m >= 3 THEN "At Risk"
    ELSE IF r <= 2 /\ f >= 4 /\ m >= 4 THEN "Can't Lose Them"
    ELSE IF r <= 2 /\ f <= 2 /\ m >= 1 THEN "Hibernating"
    ELSE IF r <= 2 /\ f <= 2 /\ m <= 2 THEN "Lost"
    ELSE IF r <= 3 /\ f <= 3 THEN "About to Sleep"
    ELSE IF r >= 3 /\ f <= 3 /\ m <= 3 THEN "Promising"
    ELSE "Need Attention"

\* segment with "Loyal Customers" asking for r_score >= 3 as well.
segment_loyal_recent(r, f, m) ==
    IF r >= 4 /\ f >= 4 /\ m >= 4 THEN "Champions"
    ELSE IF r >= 3 /\ f >= 4 /\ m >= 3 THEN "Loyal Customers"
    ELSE IF r >= 4 /\ f >= 2 /\ m >= 2 THEN "Potential Loyalists"
    ELSE IF r >= 4 /\ f <= 2 THEN "New Customers"
    ELSE IF r <= 2 /\ f >= 3 /\ m >= 3 THEN "At Risk"
    ELSE IF r <= 2 /\ f >= 4 /\ m >= 4 THEN "Can't Lose Them"
    ELSE IF r <= 2 /\ f <= 2 /\ m >= 2 THEN "Hibernating"
    ELSE IF r <= 2 /\ f <= 2 /\ m <= 2 THEN "Lost"
    ELSE IF r <= 3 /\ f <= 3 THEN "About to Sleep"
    ELSE IF r >= 3 /\ f <= 3 /\ m <= 3 THEN "Promising"
    ELSE "Need Attention"

\* segment with "About to Sleep" not looking at r_score.
segment_sleep_any_recency(r, f, m) ==
    IF r >= 4 /\ f >= 4 /\ m >= 4 THEN "Champions"
    ELSE IF f >= 4 /\ m >= 3 THEN "Loyal Customers"
    ELSE IF r >= 4 /\ f >= 2 /\ m >= 2 THEN "Potential Loyalists"
    ELSE IF r >= 4 /\ f <= 2 THEN "New Customers"
    ELSE IF r <= 2 /\ f >= 3 /\ m >= 3 THEN "At Risk"
    ELSE IF r <= 2 /\ f >= 4 /\ m >= 4 THEN "Can't Lose Them"
    ELSE IF r <= 2 /\ f <= 2 /\ m >= 2 THEN "Hibernating"
    ELSE IF r <= 2 /\ f <= 2 /\ m <= 2 THEN "Lost"
    ELSE IF f <= 3 THEN "About to Sleep"
    ELSE IF r >= 3 /\ f <= 3 /\ m <= 3 THEN "Promising"
    ELSE "Need Attention"

\* RFMScore.segment: the if/elif chain, in the order of the source.
segment(r, f, m) ==
    IF r >= 4 /\ f >= 4 /\ m >= 4 THEN "Champions"
    ELSE IF f >= 4 /\ m >= 3 THEN "Loyal Customers"
    ELSE IF r >= 4 /\ f >= 2 /\ m >= 2 THEN "Potential Loyalists"
    ELSE IF r >= 4 /\ f <= 2 THEN "New Customers"
    ELSE IF r <= 2 /\ f >= 3 /\ m >= 3 THEN "At Risk"
    ELSE IF r <= 2 /\ f >= 4 /\ m >= 4 THEN "Can't Lose Them"
    ELSE IF r <= 2 /\ f <= 2 /\ m >= 2 THEN "Hibernating"
    ELSE IF r <= 2 /\ f <= 2 /\ m <= 2 THEN "Lost"
    ELSE IF r <= 3 /\ f <= 3 THEN "About to Sleep"
    ELSE IF r >= 3 /\ f <= 3 /\ m <= 3 THEN "Promising"
    ELSE "Need Attention"

(***************************************************************************)
(* Values                                                                  *)
(***************************************************************************)

\* Python's None as a dictionary value (t.get(key) of a missing key).
NoneId == "<None>"

\* truthy_id as `is not None`: the empty string passes.
truthy_id_not_none(customer_id) == customer_id # NoneId

\* `if t.get("customer_id")`: None and the empty string are false.
truthy_id(customer_id) == customer_id # NoneId /\ customer_id # ""

\* Python's min and max of two numbers.
min(a, b) == IF a <= b THEN a ELSE b
max(a, b) == IF a >= b THEN a ELSE b

\* datetime.min, the key max() uses for a record without "transaction_date".
DatetimeMin == 0

\* timedelta.days counts whole days; a datetime is a number of ticks.
TicksPerDay == 2

\* The "transaction_date" entry of a record: a datetime, the key missing,
\* or the key present with the value None.
DateAt(t) == [kind |-> "datetime", t |-> t]
DateAbsent == [kind |-> "absent", t |-> 0]
DateNone == [kind |-> "None", t |-> 0]

\* The "total_amount" entry of a record: a Decimal (v in cents), an int
\* (v in whole units), a float (v = its shortest repr, in cents) or missing.
DecimalAmount(v) == [kind |-> "Decimal", v |-> v]
IntAmount(v) == [kind |-> "int", v |-> v]
FloatAmount(v) == [kind |-> "float", v |-> v]
AmountAbsent == [kind |-> "absent", v |-> 0]

\* What a metric method hands back: a number, float('inf'), or an exception.
Returned(n) == [exc |-> "", inf |-> FALSE, n |-> n]
Infinity == [exc |-> "", inf |-> TRUE, n |-> 0]
Raise(e) == [exc |-> e, inf |-> FALSE, n |-> 0]
NoReturn == [exc |-> "", inf |-> FALSE, n |-> 0]

(***************************************************************************)
(* Decimal and float                                                       *)
(***************************************************************************)

\* Decimal places of the amounts: Decimal("0.00").
CentsPerUnit == 100

\* Significant decimal digits a double always preserves (DBL_DIG).
FloatDigits == 15

RECURSIVE num_digits(_)
num_digits(n) == IF n < 10 THEN 1 ELSE 1 + num_digits(n \div 10)

RECURSIVE pow10(_)
pow10(k) == IF k <= 0 THEN 1 ELSE 10 * pow10(k - 1)

\* A number kept to `digits` significant digits, round half up.
round_digits(n, digits) ==
    IF num_digits(n) <= digits THEN n
    ELSE LET unit == pow10(num_digits(n) - digits)
         IN  ((n + unit \div 2) \div unit) * unit

\* A float is written as its shortest repr, in cents.
\* float(d) for a non-negative Decimal d: the double nearest d.  Up to
\* FloatDigits significant digits its repr is d again; beyond, digits are lost.
float_of_decimal(cents) == [repr |-> round_digits(cents, FloatDigits)]

\* Decimal(str(x)) for a float x: the Decimal its repr denotes.
decimal_of_float(x) == x.repr

\* calculate_monetary's view of one "total_amount": the default for a missing
\* key, Decimal(str(amount)) for an int or a float, the Decimal itself.
amount_cents(amount) ==
    CASE amount.kind = "absent" -> 0
      [] amount.kind = "int" -> amount.v * CentsPerUnit
      [] amount.kind = "float" -> decimal_of_float([repr |-> amount.v])
      [] OTHER -> amount.v

(***************************************************************************)
(* RFMAnalyzer: the three metrics                                          *)
(***************************************************************************)

\* [t for t in transactions if t.get("customer_id") == customer_id]
customer_transactions(customer_id, txs) ==
    SelectSeq(txs, LAMBDA t : t.customer_id = customer_id)

\* lambda t: t.get("transaction_date", datetime.min)
date_key(t) ==
    IF t.transaction_date.kind = "absent" THEN DateAt(DatetimeMin)
    ELSE t.transaction_date

\* max(customer_transactions, key=...): the index of the first record with
\* the greatest key, scanning left to right; 0 when a comparison meets None
\* (TypeError).  A single record is compared with nothing.
RECURSIVE max_from(_, _, _)
max_from(ct, i, best) ==
    IF i > Len(ct) THEN best
    ELSE IF date_key(ct[i]).kind = "None" \/ date_key(ct[best]).kind = "None"
         THEN 0
    ELSE max_from(ct, i + 1,
                  IF date_key(ct[i]).t > date_key(ct[best]).t THEN i ELSE best)

\* calculate_recency reading the date of the customer's first record.
calculate_recency_first_record(customer_id, txs) ==
    LET ct == customer_transactions(customer_id, txs)
        most_recent == IF max_from(ct, 2, 1) = 0 THEN 0 ELSE 1
    IN  IF ct = <<>> THEN Infinity
        ELSE IF most_recent = 0 THEN Raise("TypeError")
        ELSE IF ct[most_recent].transaction_date.kind # "datetime" THEN Infinity
        ELSE Returned((reference_date - ct[most_recent].transaction_date.t)
                      \div TicksPerDay)

\* calculate_recency reading the date of the customer's last record.
calculate_recency_last_record(customer_id, txs) ==
    LET ct == customer_transactions(customer_id, txs)
        most_recent == IF max_from(ct, 2, 1) = 0 THEN 0 ELSE Len(ct)
    IN  IF ct = <<>> THEN Infinity
        ELSE IF most_recent = 0 THEN Raise("TypeError")
        ELSE IF ct[most_recent].transaction_date.kind # "datetime" THEN Infinity
        ELSE Returned((reference_date - ct[most_recent].transaction_date.t)
                      \div TicksPerDay)

\* calculate_recency filtering on a key no record has.
calculate_recency_wrong_key(customer_id, txs) ==
    LET ct == SelectSeq(txs, LAMBDA t : NoneId = customer_id)
        most_recent == max_from(ct, 2, 1)
    IN  IF ct = <<>> THEN Infinity
        ELSE IF most_recent = 0 THEN Raise("TypeError")
        ELSE IF ct[most_recent].transaction_date.kind # "datetime" THEN Infinity
        ELSE Returned((reference_date - ct[most_recent].transaction_date.t)
                      \div TicksPerDay)

\* RFMAnalyzer.calculate_recency
calculate_recency(customer_id, txs) ==
    LET ct == customer_transactions(customer_id, txs)
        most_recent == max_from(ct, 2, 1)
    IN  IF ct = <<>> THEN Infinity
        ELSE IF most_recent = 0 THEN Raise("TypeError")
        ELSE IF ct[most_recent].transaction_date.kind # "datetime" THEN Infinity
        ELSE Returned((reference_date - ct[most_recent].transaction_date.t)
                      \div TicksPerDay)

\* calculate_frequency never below 1.
calculate_frequency_at_least_one(customer_id, txs) ==
    Returned(max(Len(customer_transactions(customer_id, txs)), 1))

\* RFMAnalyzer.calculate_frequency
calculate_frequency(customer_id, txs) ==
    Returned(Len(customer_transactions(customer_id, txs)))

\* The loop of calculate_monetary: total += amount over ct[i..].
RECURSIVE sum_amounts(_, _)
sum_amounts(ct, i) ==
    IF i > Len(ct) THEN 0
    ELSE amount_cents(ct[i].total_amount) + sum_amounts(ct, i + 1)

\* calculate_monetary summing the whole list, whoever the customer.
calculate_monetary_all(customer_id, txs) == Returned(sum_amounts(txs, 1))

\* RFMAnalyzer.calculate_monetary
calculate_monetary(customer_id, txs) ==
    Returned(sum_amounts(customer_transactions(customer_id, txs), 1))

(***************************************************************************)
(* RFMAnalyzer: scoring                                                    *)
(***************************************************************************)

\* The quantiles asked for, [0.2, 0.4, 0.6, 0.8], are k/QuantileDen, k = 1..4.
QuantileDen == 5

\* Number of boundaries, len([0.2, 0.4, 0.6, 0.8]).
NumQuantiles == 4

\* A metric value on the scale of the boundaries (numerators over QuantileDen).
scaled(value) == value * QuantileDen

\* quantile without interpolation: the order statistic at floor(h).
quantile_lower(column, k) ==
    LET x == SortSeq(column, LAMBDA a, b : a < b)
        n == Len(x)
        pos == (n - 1) * k
        lo == pos \div QuantileDen
    IN  QuantileDen * x[lo + 1]

\* Series.quantile(k/5) of a column, linear interpolation between the order
\* statistics: with x sorted (0-based) and h = (n-1)*k/5,
\*   x[floor h] + (h - floor h) * (x[floor h + 1] - x[floor h]).
\* The result is the numerator over QuantileDen.
quantile(column, k) ==
    LET x == SortSeq(column, LAMBDA a, b : a < b)
        n == Len(x)
        pos == (n - 1) * k
        lo == pos \div QuantileDen
        frac == pos % QuantileDen
        hi == IF lo + 1 <= n - 1 THEN lo + 1 ELSE lo
    IN  QuantileDen * x[lo + 1] + frac * (x[hi + 1] - x[lo + 1])

\* df[column].quantile([0.2, 0.4, 0.6, 0.8]).tolist()
quantiles(column) == [k \in 1..NumQuantiles |-> quantile(column, k)]

\* _calculate_score with exclusive comparisons.
calculate_score_strict(value, qs) ==
    IF value < qs[1] THEN 1
    ELSE IF value < qs[2] THEN 2
    ELSE IF value < qs[3] THEN 3
    ELSE IF value < qs[4] THEN 4
    ELSE 5

\* _calculate_score with the first comparison exclusive.
calculate_score_first_exclusive(value, qs) ==
    IF value < qs[1] THEN 1
    ELSE IF value <= qs[2] THEN 2
    ELSE IF value <= qs[3] THEN 3
    ELSE IF value <= qs[4] THEN 4
    ELSE 5

\* _calculate_score testing the boundaries from the top down.
calculate_score_descending(value, qs) ==
    IF value >= qs[4] THEN 5
    ELSE IF value >= qs[3] THEN 4
    ELSE IF value >= qs[2] THEN 3
    ELSE IF value >= qs[1] THEN 2
    ELSE 1

\* _calculate_score counting from 0.
calculate_score_from_zero(value, qs) ==
    IF value <= qs[1] THEN 0
    ELSE IF value <= qs[2] THEN 1
    ELSE IF value <= qs[3] THEN 2
    ELSE IF value <= qs[4] THEN 3
    ELSE 4

\* RFMAnalyzer._calculate_score (quantiles[0..3] are qs[1..4])
calculate_score(value, qs) ==
    IF value <= qs[1] THEN 1
    ELSE IF value <= qs[2] THEN 2
    ELSE IF value <= qs[3] THEN 3
    ELSE IF value <= qs[4] THEN 4
    ELSE 5

\* rfm_row counting the records of the whole list.
rfm_row_count_all(customer_id, txs) ==
    [customer_id |-> customer_id,
     recency |-> calculate_recency(customer_id, txs),
     frequency |-> Len(txs),
     monetary |-> float_of_decimal(calculate_monetary(customer_id, txs).n)]

\* One entry of rfm_data; "monetary" is float(monetary).
rfm_row(customer_id, txs) ==
    [customer_id |-> customer_id,
     recency |-> calculate_recency(customer_id, txs),
     frequency |-> calculate_frequency(customer_id, txs).n,
     monetary |-> float_of_decimal(calculate_monetary(customer_id, txs).n)]

\* The first loop of calculate_rfm_scores over customer_ids, in list order:
\* rows of the customers whose recency is not float("inf").
rfm_data(customer_ids, txs) ==
    SelectSeq([i \in 1..Len(customer_ids) |-> rfm_row(customer_ids[i], txs)],
              LAMBDA row : ~row.recency.inf)

\* A column of the DataFrame.
recency_column(data) == [i \in 1..Len(data) |-> data[i].recency.n]
frequency_column(data) == [i \in 1..Len(data) |-> data[i].frequency]
monetary_column(data) == [i \in 1..Len(data) |-> data[i].monetary.repr]

\* make_score scoring monetary against the boundaries of frequency.
make_score_shared_boundaries(row, recency_quantiles, frequency_quantiles, monetary_quantiles) ==
    [customer_id |-> row.customer_id,
     recency |-> row.recency.n,
     frequency |-> row.frequency,
     monetary |-> decimal_of_float(row.monetary),
     r_score |-> 6 - calculate_score(scaled(row.recency.n), recency_quantiles),
     f_score |-> calculate_score(scaled(row.frequency), frequency_quantiles),
     m_score |-> calculate_score(scaled(row.monetary.repr), frequency_quantiles)]

\* make_score inverting as the comment of the source says, "(5 - score)".
make_score_five_minus(row, recency_quantiles, frequency_quantiles, monetary_quantiles) ==
    [customer_id |-> row.customer_id,
     recency |-> row.recency.n,
     frequency |-> row.frequency,
     monetary |-> decimal_of_float(row.monetary),
     r_score |-> 5 - calculate_score(scaled(row.recency.n), recency_quantiles),
     f_score |-> calculate_score(scaled(row.frequency), frequency_quantiles),
     m_score |-> calculate_score(scaled(row.monetary.repr), monetary_quantiles)]

\* make_score without the inversion of the recency score.
make_score_no_inversion(row, recency_quantiles, frequency_quantiles, monetary_quantiles) ==
    [customer_id |-> row.customer_id,
     recency |-> row.recency.n,
     frequency |-> row.frequency,
     monetary |-> decimal_of_float(row.monetary),
     r_score |-> calculate_score(scaled(row.recency.n), recency_quantiles),
     f_score |-> calculate_score(scaled(row.frequency), frequency_quantiles),
     m_score |-> calculate_score(scaled(row.monetary.repr), monetary_quantiles)]

\* The second loop: the RFMScore built from one row and the boundaries.
make_score(row, recency_quantiles, frequency_quantiles, monetary_quantiles) ==
    [customer_id |-> row.customer_id,
     recency |-> row.recency.n,
     frequency |-> row.frequency,
     monetary |-> decimal_of_float(row.monetary),
     r_score |-> 6 - calculate_score(scaled(row.recency.n), recency_quantiles),
     f_score |-> calculate_score(scaled(row.frequency), frequency_quantiles),
     m_score |-> calculate_score(scaled(row.monetary.repr), monetary_quantiles)]

\* customer_id_set without the `if t.get("customer_id")` filter.
customer_id_set_all(txs) == {txs[i].customer_id : i \in 1..Len(txs)}

\* The ids of `transactions`, as the set the list is made from.
customer_id_set(txs) ==
    {txs[i].customer_id : i \in {j \in 1..Len(txs) : truthy_id(txs[j].customer_id)}}

\* list(set(...)): the ids in any order, each once.
id_lists(txs) ==
    LET ids == customer_id_set(txs)
        n == Cardinality(ids)
    IN  {order \in [1..n -> ids] : \A i, j \in 1..n : order[i] = order[j] => i = j}

\* The quantile lists of a call that ended before computing them.
NoBoundaries == <<>>

\* RFMAnalyzer.calculate_rfm_scores, given the order list(set(...)) produced:
\* the exception it ends with, the list it returns, the ids it skipped and
\* its locals recency_quantiles, frequency_quantiles, monetary_quantiles.
\* An exception of calculate_recency ends the first loop where it is raised.
calculate_rfm_scores(txs, customer_ids) ==
    LET raising == {i \in 1..Len(customer_ids) :
                      calculate_recency(customer_ids[i], txs).exc # ""}
        visited == IF raising = {} THEN 1..Len(customer_ids)
                   ELSE {i \in 1..Len(customer_ids) : \A j \in raising : i < j}
        skips == {customer_ids[i] : i \in
                    {j \in visited : calculate_recency(customer_ids[j], txs).inf}}
        data == rfm_data(customer_ids, txs)
        recency_quantiles == quantiles(recency_column(data))
        frequency_quantiles == quantiles(frequency_column(data))
        monetary_quantiles == quantiles(monetary_column(data))
    IN  IF customer_ids = <<>>
        THEN [exc |-> "", scores |-> <<>>, skipped |-> {},
              boundaries |-> NoBoundaries]
        ELSE IF raising # {}
        THEN [exc |-> "TypeError", scores |-> <<>>, skipped |-> skips,
              boundaries |-> NoBoundaries]
        ELSE IF data = <<>>
        THEN [exc |-> "", scores |-> <<>>, skipped |-> skips,
              boundaries |-> NoBoundaries]
        ELSE [exc |-> "",
              scores |-> [i \in 1..Len(data) |->
                            make_score(data[i], recency_quantiles,
                                       frequency_quantiles, monetary_quantiles)],
              skipped |-> skips,
              boundaries |-> [recency |-> recency_quantiles,
                              frequency |-> frequency_quantiles,
                              monetary |-> monetary_quantiles]]

(***************************************************************************)
(* RFMAnalyzer: get_segment_summary                                        *)
(***************************************************************************)

\* The DataFrame built from the scores, one row per RFMScore;
\* "segment" reads the property, "monetary" is float(s.monetary).
summary_frame(scs) ==
    [i \in 1..Len(scs) |->
        [customer_id |-> scs[i].customer_id,
         segment |-> segment(scs[i].r_score, scs[i].f_score, scs[i].m_score),
         recency |-> scs[i].recency,
         frequency |-> scs[i].frequency,
         monetary |-> float_of_decimal(scs[i].monetary)]]

\* df['segment'].unique()
unique_segments(df) == {df[i].segment : i \in 1..Len(df)}

\* segment_rows keeping every row of the frame.
segment_rows_all(df, label) == df

\* df[df['segment'] == segment]
segment_rows(df, label) == SelectSeq(df, LAMBDA row : row.segment = label)

\* Series.sum()
RECURSIVE series_sum(_)
series_sum(column) ==
    IF column = <<>> THEN 0 ELSE Head(column) + series_sum(Tail(column))

\* round(x, 2) keeps hundredths.
RoundScale == 100

\* round(num / den) to a whole number.  Off a tie it is the nearest one; on
\* a tie the binary value of the float decides, and both neighbours are
\* possible outcomes.
rounded(num, den) ==
    LET q == num \div den
        r == num % den
    IN  IF 2 * r < den THEN {q}
        ELSE IF 2 * r > den THEN {q + 1}
        ELSE {q, q + 1}

\* The entries summary[segment] can take for the rows of one segment.
\* Averages of recency and frequency are in hundredths; the monetary column
\* is in units, so its average and total rounded to 2 places are in cents.
segment_stats(segment_df) ==
    LET n == Len(segment_df)
        recency == [i \in 1..n |-> segment_df[i].recency]
        frequency == [i \in 1..n |-> segment_df[i].frequency]
        monetary == [i \in 1..n |-> segment_df[i].monetary.repr]
    IN  [count : {n},
         avg_recency : rounded(RoundScale * series_sum(recency), n),
         avg_frequency : rounded(RoundScale * series_sum(frequency), n),
         avg_monetary : rounded(series_sum(monetary), n),
         total_monetary : {series_sum(monetary)}]

\* RFMAnalyzer.get_segment_summary: the outcomes of a call.  A frame built
\* from an empty list has no column, and df['segment'] raises KeyError.
get_segment_summary(scs) ==
    LET df == summary_frame(scs)
        labels == unique_segments(df)
        stats == UNION {segment_stats(segment_rows(df, l)) : l \in labels}
    IN  IF scs = <<>> THEN {[exc |-> "KeyError", summary |-> <<>>]}
        ELSE {[exc |-> "", summary |-> f] :
                f \in {g \in [labels -> stats] :
                         \A l \in labels :
                             g[l] \in segment_stats(segment_rows(df, l))}}

(***************************************************************************)
(* Transaction (src/src/core/models.py)                                    *)
(***************************************************************************)

\* Transaction.VALID_PAYMENT_METHODS
VALID_PAYMENT_METHODS == {"cash", "card", "mobile", "tab"}

\* An entry of an item dictionary: a number, or the key missing.
Entry(v) == [kind |-> "number", v |-> v]
EntryAbsent == [kind |-> "absent", v |-> 0]

\* item.get(key, 0)
entry_or_zero(entry) == IF entry.kind = "absent" THEN 0 ELSE entry.v

\* Transaction.__post_init__: the message of the ValueError raised by
\* _validate_required_fields, _validate_items or _validate_payment_method,
\* in that order; "" when the object is accepted.  `not x` is true of None
\* and of the empty string; a datetime is never false.
post_init(f) ==
    IF ~truthy_id(f.transaction_id) THEN "transaction_id is required"
    ELSE IF ~truthy_id(f.customer_id) THEN "customer_id is required"
    ELSE IF f.transaction_date.kind # "datetime"
         THEN "transaction_date is required"
    ELSE IF f.items = <<>> THEN "Transaction must have at least one item"
    ELSE IF f.payment_method \notin VALID_PAYMENT_METHODS
         THEN "Invalid payment method"
    ELSE ""

\* Transaction.total_amount, in cents: quantity is a whole number and
\* unit_price a number of cents, so Decimal(str(.)) of each is exact.
RECURSIVE items_total(_)
items_total(items) ==
    IF items = <<>> THEN 0
    ELSE entry_or_zero(Head(items).quantity)
             * entry_or_zero(Head(items).unit_price)
         + items_total(Tail(items))

(***************************************************************************)
(* BarDataGenerator (src/src/analytics/data_generator.py)                  *)
(***************************************************************************)

\* The branches of generate_dataset on the behaviour of a customer:
\* num_txns = random.randint(min_txns, max_txns) and
\* ideal_recency = _safe_randint(min_recency, max_recency).
Behaviors ==
    {[behavior |-> "champion", min_txns |-> 15, max_txns |-> 30,
      min_recency |-> 1, max_recency |-> 7],
     [behavior |-> "loyal", min_txns |-> 10, max_txns |-> 20,
      min_recency |-> 7, max_recency |-> 30],
     [behavior |-> "potential", min_txns |-> 5, max_txns |-> 10,
      min_recency |-> 1, max_recency |-> 14],
     [behavior |-> "new", min_txns |-> 1, max_txns |-> 3,
      min_recency |-> 1, max_recency |-> 30],
     [behavior |-> "at_risk", min_txns |-> 8, max_txns |-> 15,
      min_recency |-> 60, max_recency |-> 120],
     [behavior |-> "lost", min_txns |-> 3, max_txns |-> 8,
      min_recency |-> 150, max_recency |-> 300],
     [behavior |-> "hibernating", min_txns |-> 2, max_txns |-> 5,
      min_recency |-> 120, max_recency |-> 200]}

\* BarDataGenerator._safe_randint: the values it can return.
safe_randint(min_val, max_val) ==
    IF min_val > max_val THEN {min_val}
    ELSE IF min_val = max_val THEN {min_val}
    ELSE min_val..max_val

\* CustomerGenerator.generate_customers(count): the length of its list.
generate_customers(count) == max(count, 0)

\* days_ago of the i-th transaction of a customer: the values it can take.
days_ago_choices(i, recency, days) ==
    IF i = 0 THEN {recency}
    ELSE safe_randint(min(recency + 1, days), days)

\* txn_date without the two range checks.
txn_date_unchecked(start_date, end_date, days_ago) == end_date - days_ago * TicksPerDay

\* txn_date = end_date - timedelta(days=days_ago), then "Ensure date is
\* within range".
txn_date(start_date, end_date, days_ago) ==
    LET date == end_date - days_ago * TicksPerDay
    IN  IF date < start_date THEN start_date
        ELSE IF date > end_date THEN end_date
        ELSE date

(***************************************************************************)
(* Inputs                                                                  *)
(***************************************************************************)

\* Longest transaction list.
MaxTx == 3

CustomerIds == {"A", "B", "C"}

\* Transaction dates, in ticks after datetime.min: a day and a half before
\* the reference date, and half a day after it.
Dates == {1, 5}

\* reference_date values.
ReferenceDates == {4}

\* Decimal amounts of the records, in cents.
Cents == {1, 2}

\* Records as the model layer validates them.
ValidRecords ==
    [customer_id : CustomerIds,
     transaction_date : {DateAt(t) : t \in Dates},
     total_amount : {DecimalAmount(v) : v \in Cents}]

\* Records with one entry the model layer would have rejected or converted,
\* and a record dated datetime.min, the default key of max() at rfm.py:110.
OddRecords ==
    [customer_id : {"", NoneId},
     transaction_date : {DateAt(1)},
     total_amount : {DecimalAmount(1)}]
    \cup [customer_id : {"A"},
          transaction_date : {DateAbsent, DateNone, DateAt(DatetimeMin)},
          total_amount : {DecimalAmount(1)}]
    \cup [customer_id : {"A"},
          transaction_date : {DateAt(1)},
          total_amount : {AmountAbsent, IntAmount(1)}]

Records == ValidRecords \cup OddRecords

\* The two customers of test_calculate_rfm_score: A bought 2, 10 and 20 days
\* before the reference date, B once, 180 days before it.
ScenarioReferenceDate == 400

DaysBefore(days) == DateAt(ScenarioReferenceDate - days * TicksPerDay)

ScenarioRecords ==
    {[customer_id |-> "A", transaction_date |-> DaysBefore(2),
      total_amount |-> DecimalAmount(10000)],
     [customer_id |-> "A", transaction_date |-> DaysBefore(10),
      total_amount |-> DecimalAmount(15000)],
     [customer_id |-> "A", transaction_date |-> DaysBefore(20),
      total_amount |-> DecimalAmount(20000)],
     [customer_id |-> "B", transaction_date |-> DaysBefore(180),
      total_amount |-> DecimalAmount(2000)]}

\* Lists that hold some of the scenario's records, each at most once.
ScenarioLists ==
    UNION {{txs \in [1..n -> ScenarioRecords] :
               \A i, j \in 1..n : txs[i] = txs[j] => i = j} :
           n \in 0..Cardinality(ScenarioRecords)}

\* Longest transaction list of a population, and the ids of its customers
\* in the order of their first record.
MaxPopulation == 4

PopulationIds == <<"A", "B", "C", "D">>

\* Date and amount of a record of a population: an old small purchase, a
\* recent small one, an old larger one.
PopulationPurchases ==
    {<<DateAt(1), DecimalAmount(1)>>, <<DateAt(5), DecimalAmount(1)>>,
     <<DateAt(1), DecimalAmount(2)>>}

\* Validated records of the first k customers.
PopulationRecords(k) ==
    {[customer_id |-> PopulationIds[j], transaction_date |-> purchase[1],
      total_amount |-> purchase[2]] :
        j \in 1..k, purchase \in PopulationPurchases}

\* Lists of n validated records in which a customer new to the list is the
\* next of PopulationIds: every grouping of n records by customer, once.
RECURSIVE PopulationLists(_)
PopulationLists(n) ==
    IF n = 0 THEN {<<>>}
    ELSE UNION {{Append(txs, t) :
                    t \in PopulationRecords(
                             min(Cardinality(customer_id_set(txs)) + 1,
                                 Len(PopulationIds)))} :
                txs \in PopulationLists(n - 1)}

\* Longest transaction list whose rearrangements are compared.
MaxPermuted == 3

\* The records of the lists that are rearranged: two customers, A with a
\* record of each kind of transaction_date (a datetime, datetime.min, the
\* key missing, None).
PermutationRecords ==
    [customer_id : {"A", "B"},
     transaction_date : {DateAt(t) : t \in Dates},
     total_amount : {DecimalAmount(1)}]
    \cup [customer_id : {"A"},
          transaction_date : {DateAt(1)},
          total_amount : {DecimalAmount(2)}]
    \cup [customer_id : {"A"},
          transaction_date : {DateAbsent, DateNone, DateAt(DatetimeMin)},
          total_amount : {DecimalAmount(1)}]

\* Longest list of scores handed to get_segment_summary.
MaxScores == 3

\* RFMScore objects: a customer with its three metrics, and three scores.
ScoreMetrics ==
    {[customer_id |-> "A", recency |-> 0, frequency |-> 1, monetary |-> 1],
     [customer_id |-> "B", recency |-> 1, frequency |-> 2, monetary |-> 2]}

ScoreTriples ==
    {<<5, 5, 5>>, <<4, 4, 4>>, <<1, 5, 5>>, <<5, 1, 1>>, <<3, 3, 3>>,
     <<1, 1, 1>>}

RFMScore(metrics, triple) ==
    [customer_id |-> metrics.customer_id,
     recency |-> metrics.recency,
     frequency |-> metrics.frequency,
     monetary |-> metrics.monetary,
     r_score |-> triple[1],
     f_score |-> triple[2],
     m_score |-> triple[3]]

ScoreObjects == {RFMScore(metrics, triple) : metrics \in ScoreMetrics, triple \in ScoreTriples}

\* Longest item list of a Transaction.
MaxItems == 2

\* Item dictionaries: a quantity (or none) and a unit_price in cents.
Items ==
    [quantity : {Entry(2), Entry(0), Entry(-1), EntryAbsent},
     unit_price : {Entry(600), Entry(1250)}]

\* Arguments of Transaction(...); a field left out is None.
TransactionFields ==
    [transaction_id : {"TXN001", NoneId},
     customer_id : {"CUST001", "", NoneId},
     transaction_date : {DateAt(1), DateNone},
     items : UNION {[1..n -> Items] : n \in 0..MaxItems},
     payment_method : {"cash", "card", "cryptocurrency"}]

\* Arguments of generate_dataset: one customer or two, asked for fewer
\* transactions than one customer can have or for more than any can have;
\* a range of two days, of half a day, and one that ends before it starts.
DatasetArgs ==
    [num_customers : {1, 2},
     num_transactions : {2, 31},
     start_date : {0, 3, 5},
     end_date : {4}]

(***************************************************************************)
(* Objects not in use                                                      *)
(***************************************************************************)

AnalyzerIdle ==
    /\ reference_date \in ReferenceDates
    /\ transactions = <<>>
    /\ last_call = ""
    /\ last_arg = ""
    /\ ret = NoReturn
    /\ scores = <<>>
    /\ skipped = {}
    /\ raised = ""
    /\ summary = <<>>
    /\ boundaries = NoBoundaries

ScoreIdle ==
    /\ r_score = 1
    /\ f_score = 1
    /\ m_score = 1
    /\ segment_ret = ""

\* The value of a property: not read yet, or read.
Unread == [read |-> FALSE, cents |-> 0]
Read(cents) == [read |-> TRUE, cents |-> cents]

TransactionIdle ==
    /\ fields = <<>>
    /\ tx_state = ""
    /\ tx_error = ""
    /\ total_amount = Unread

GeneratorIdle ==
    /\ args = <<>>
    /\ pc = ""
    /\ total_days = 0
    /\ customers = 0
    /\ customer_index = 0
    /\ num_txns = 0
    /\ recency_days = 0
    /\ loop_i = 0
    /\ transaction_count = 0
    /\ txn_dates = {}
    /\ dataset = <<>>

(***************************************************************************)
(* RFMScore under test: specification SegmentSpec                          *)
(***************************************************************************)

\* An RFMScore with any three scores of the range.
SegmentInit ==
    /\ r_score \in ScoreRange
    /\ f_score \in ScoreRange
    /\ m_score \in ScoreRange
    /\ segment_ret = ""
    /\ AnalyzerIdle
    /\ TransactionIdle
    /\ GeneratorIdle

\* Reading the property RFMScore.segment.
ReadSegment ==
    /\ segment_ret' = segment(r_score, f_score, m_score)
    /\ UNCHANGED <<r_score, f_score, m_score>>
    /\ UNCHANGED analyzer_vars
    /\ UNCHANGED transaction_vars
    /\ UNCHANGED generator_vars

SegmentNext == ReadSegment

SegmentSpec == SegmentInit /\ [][SegmentNext]_vars

(***************************************************************************)
(* RFMAnalyzer: specification Spec                                         *)
(***************************************************************************)

\* An analyzer just constructed, before any call.
AnalyzerNew ==
    /\ last_call = ""
    /\ last_arg = ""
    /\ ret = NoReturn
    /\ scores = <<>>
    /\ skipped = {}
    /\ raised = ""
    /\ summary = <<>>
    /\ boundaries = NoBoundaries
    /\ ScoreIdle
    /\ TransactionIdle
    /\ GeneratorIdle

\* RFMAnalyzer(reference_date) and a transaction list to analyse.
Init ==
    /\ reference_date \in ReferenceDates
    /\ \E n \in 0..MaxTx : transactions \in [1..n -> Records]
    /\ AnalyzerNew

\* The caller is sequential: a method is called when no result is pending.
MetricCall(name, customer_id, value) ==
    /\ last_call = ""
    /\ last_call' = name
    /\ last_arg' = customer_id
    /\ ret' = value
    /\ raised' = value.exc
    /\ scores' = <<>>
    /\ skipped' = {}
    /\ UNCHANGED <<reference_date, transactions, summary, boundaries>>
    /\ UNCHANGED score_vars
    /\ UNCHANGED transaction_vars
    /\ UNCHANGED generator_vars

CalculateRecency(customer_id) ==
    MetricCall("calculate_recency", customer_id,
               calculate_recency(customer_id, transactions))

CalculateFrequency(customer_id) ==
    MetricCall("calculate_frequency", customer_id,
               calculate_frequency(customer_id, transactions))

CalculateMonetary(customer_id) ==
    MetricCall("calculate_monetary", customer_id,
               calculate_monetary(customer_id, transactions))

\* CalculateRfmScores setting reference_date anew, a tick later.
CalculateRfmScores_refreshing ==
    /\ last_call = ""
    /\ \E customer_ids \in id_lists(transactions) :
        LET out == calculate_rfm_scores(transactions, customer_ids)
        IN  /\ last_call' = "calculate_rfm_scores"
            /\ last_arg' = ""
            /\ ret' = NoReturn
            /\ raised' = out.exc
            /\ scores' = out.scores
            /\ skipped' = out.skipped
            /\ boundaries' = out.boundaries
            /\ reference_date' = reference_date + 1
            /\ UNCHANGED <<transactions, summary>>
            /\ UNCHANGED score_vars
            /\ UNCHANGED transaction_vars
            /\ UNCHANGED generator_vars

CalculateRfmScores ==
    /\ last_call = ""
    /\ \E customer_ids \in id_lists(transactions) :
        LET out == calculate_rfm_scores(transactions, customer_ids)
        IN  /\ last_call' = "calculate_rfm_scores"
            /\ last_arg' = ""
            /\ ret' = NoReturn
            /\ raised' = out.exc
            /\ scores' = out.scores
            /\ skipped' = out.skipped
            /\ boundaries' = out.boundaries
            /\ UNCHANGED <<reference_date, transactions, summary>>
            /\ UNCHANGED score_vars
            /\ UNCHANGED transaction_vars
            /\ UNCHANGED generator_vars

\* The caller takes the result (or the exception) of the call that ended.
TakeResult ==
    /\ last_call # ""
    /\ last_call' = ""
    /\ last_arg' = ""
    /\ ret' = NoReturn
    /\ raised' = ""
    /\ scores' = <<>>
    /\ skipped' = {}
    /\ summary' = <<>>
    /\ boundaries' = NoBoundaries
    /\ UNCHANGED <<reference_date, transactions>>
    /\ UNCHANGED score_vars
    /\ UNCHANGED transaction_vars
    /\ UNCHANGED generator_vars

Next ==
    \/ \E customer_id \in CustomerIds : CalculateRecency(customer_id)
    \/ \E customer_id \in CustomerIds : CalculateFrequency(customer_id)
    \/ \E customer_id \in CustomerIds : CalculateMonetary(customer_id)
    \/ CalculateRfmScores
    \/ TakeResult

Spec == Init /\ [][Next]_vars

(***************************************************************************)
(* get_segment_summary: specifications ScenarioSpec and SummarySpec        *)
(***************************************************************************)

\* get_segment_summary(scores) on the list the caller holds: the one
\* calculate_rfm_scores just returned, or the list it started with.
GetSegmentSummary ==
    /\ last_call \in {"", "calculate_rfm_scores"}
    /\ raised = ""
    /\ \E out \in get_segment_summary(scores) :
        /\ last_call' = "get_segment_summary"
        /\ last_arg' = ""
        /\ ret' = NoReturn
        /\ raised' = out.exc
        /\ summary' = out.summary
    /\ UNCHANGED <<reference_date, transactions, scores, skipped, boundaries>>
    /\ UNCHANGED score_vars
    /\ UNCHANGED transaction_vars
    /\ UNCHANGED generator_vars

\* An analyzer whose reference date the scenario's records are counted from.
ScenarioInit ==
    /\ reference_date = ScenarioReferenceDate
    /\ transactions \in ScenarioLists
    /\ AnalyzerNew

ScenarioNext ==
    \/ \E customer_id \in CustomerIds : CalculateRecency(customer_id)
    \/ \E customer_id \in CustomerIds : CalculateFrequency(customer_id)
    \/ \E customer_id \in CustomerIds : CalculateMonetary(customer_id)
    \/ CalculateRfmScores
    \/ GetSegmentSummary
    \/ TakeResult

ScenarioSpec == ScenarioInit /\ [][ScenarioNext]_vars

\* An analyzer without transactions and a list of RFMScore objects in the
\* caller's hands.
SummaryInit ==
    /\ reference_date \in ReferenceDates
    /\ transactions = <<>>
    /\ last_call = ""
    /\ last_arg = ""
    /\ ret = NoReturn
    /\ \E n \in 0..MaxScores : scores \in [1..n -> ScoreObjects]
    /\ skipped = {}
    /\ raised = ""
    /\ summary = <<>>
    /\ boundaries = NoBoundaries
    /\ ScoreIdle
    /\ TransactionIdle
    /\ GeneratorIdle

SummaryNext ==
    \/ CalculateRfmScores
    \/ GetSegmentSummary
    \/ TakeResult

SummarySpec == SummaryInit /\ [][SummaryNext]_vars

(***************************************************************************)
(* Scoring of a population: specification PopulationSpec                   *)
(***************************************************************************)

\* An analyzer and the validated records of up to MaxPopulation customers.
PopulationInit ==
    /\ reference_date \in ReferenceDates
    /\ \E n \in 0..MaxPopulation : transactions \in PopulationLists(n)
    /\ AnalyzerNew

PopulationNext ==
    \/ CalculateRfmScores
    \/ TakeResult

PopulationSpec == PopulationInit /\ [][PopulationNext]_vars

(***************************************************************************)
(* Rearranged transaction lists: specification PermutationSpec             *)
(***************************************************************************)

\* An analyzer and a list of up to MaxPermuted records, dated or not.
PermutationInit ==
    /\ reference_date \in ReferenceDates
    /\ \E n \in 0..MaxPermuted : transactions \in [1..n -> PermutationRecords]
    /\ AnalyzerNew

PermutationNext ==
    \/ CalculateRfmScores
    \/ TakeResult

PermutationSpec == PermutationInit /\ [][PermutationNext]_vars

(***************************************************************************)
(* Transaction: specification TransactionSpec                              *)
(***************************************************************************)

\* The arguments of a Transaction(...) call about to run.
TransactionInit ==
    /\ fields \in TransactionFields
    /\ tx_state = "new"
    /\ tx_error = ""
    /\ total_amount = Unread
    /\ AnalyzerIdle
    /\ ScoreIdle
    /\ GeneratorIdle

\* The dataclass stores the arguments and runs __post_init__.
PostInit ==
    /\ tx_state = "new"
    /\ tx_error' = post_init(fields)
    /\ tx_state' = IF post_init(fields) = "" THEN "accepted" ELSE "rejected"
    /\ UNCHANGED <<fields, total_amount>>
    /\ UNCHANGED analyzer_vars
    /\ UNCHANGED score_vars
    /\ UNCHANGED generator_vars

\* Reading the property total_amount of an accepted Transaction.
ReadTotalAmount ==
    /\ tx_state = "accepted"
    /\ total_amount' = Read(items_total(fields.items))
    /\ UNCHANGED <<fields, tx_state, tx_error>>
    /\ UNCHANGED analyzer_vars
    /\ UNCHANGED score_vars
    /\ UNCHANGED generator_vars

TransactionNext == PostInit \/ ReadTotalAmount

TransactionSpec == TransactionInit /\ [][TransactionNext]_vars

(***************************************************************************)
(* BarDataGenerator.generate_dataset: specification GeneratorSpec          *)
(***************************************************************************)

\* generate_dataset(num_customers, num_transactions, start_date, end_date)
\* about to run.
GeneratorInit ==
    /\ args \in DatasetArgs
    /\ pc = "call"
    /\ total_days = 0
    /\ customers = 0
    /\ customer_index = 0
    /\ num_txns = 0
    /\ recency_days = 0
    /\ loop_i = 0
    /\ transaction_count = 0
    /\ txn_dates = {}
    /\ dataset = <<>>
    /\ AnalyzerIdle
    /\ ScoreIdle
    /\ TransactionIdle

GeneratorFrame ==
    /\ UNCHANGED analyzer_vars
    /\ UNCHANGED score_vars
    /\ UNCHANGED transaction_vars

\* From the entry of generate_dataset to the outer loop: total_days, the
\* customers, an empty list of transactions.
EnterGenerateDataset ==
    /\ pc = "call"
    /\ total_days' = max((args.end_date - args.start_date) \div TicksPerDay, 1)
    /\ customers' = generate_customers(args.num_customers)
    /\ transaction_count' = 0
    /\ txn_dates' = {}
    /\ pc' = "customer"
    /\ UNCHANGED <<args, customer_index, num_txns, recency_days, loop_i, dataset>>
    /\ GeneratorFrame

\* The outer loop takes the next customer: its behaviour (drawn by
\* _assign_customer_behavior), num_txns and ideal_recency are random.
NextCustomer ==
    /\ pc = "customer"
    /\ customer_index < customers
    /\ \E b \in Behaviors :
          \E n \in b.min_txns..b.max_txns :
             \E ideal_recency \in safe_randint(b.min_recency, b.max_recency) :
                /\ num_txns' = n
                /\ recency_days' = min(ideal_recency, total_days)
    /\ loop_i' = 0
    /\ pc' = "transaction"
    /\ UNCHANGED <<args, total_days, customers, customer_index,
                   transaction_count, txn_dates, dataset>>
    /\ GeneratorFrame

\* One pass of the inner loop that does not break: a transaction is dated,
\* generated and appended.
GenerateTransaction ==
    /\ pc = "transaction"
    /\ loop_i < num_txns
    /\ ~(transaction_count >= args.num_transactions)
    /\ \E days_ago \in days_ago_choices(loop_i, recency_days, total_days) :
          txn_dates' = txn_dates
              \cup {txn_date(args.start_date, args.end_date, days_ago)}
    /\ transaction_count' = transaction_count + 1
    /\ loop_i' = loop_i + 1
    /\ UNCHANGED <<args, pc, total_days, customers, customer_index, num_txns,
                   recency_days, dataset>>
    /\ GeneratorFrame

\* The inner loop ends, exhausted or by `break`; the outer loop breaks too
\* when transaction_count has reached num_transactions.  The locals of the
\* finished pass are dead and are cleared.
EndCustomer ==
    /\ pc = "transaction"
    /\ loop_i >= num_txns \/ transaction_count >= args.num_transactions
    /\ IF transaction_count >= args.num_transactions
       THEN pc' = "return" /\ UNCHANGED customer_index
       ELSE pc' = "customer" /\ customer_index' = customer_index + 1
    /\ num_txns' = 0
    /\ recency_days' = 0
    /\ loop_i' = 0
    /\ UNCHANGED <<args, total_days, customers, transaction_count, txn_dates,
                   dataset>>
    /\ GeneratorFrame

\* return {"customers": customers, "transactions": transactions}
ReturnDataset ==
    /\ pc = "return" \/ (pc = "customer" /\ customer_index >= customers)
    /\ dataset' = [customers |-> customers, transactions |-> transaction_count]
    /\ pc' = "done"
    /\ UNCHANGED <<args, total_days, customers, customer_index, num_txns,
                   recency_days, loop_i, transaction_count, txn_dates>>
    /\ GeneratorFrame

GeneratorNext ==
    \/ EnterGenerateDataset
    \/ NextCustomer
    \/ GenerateTransaction
    \/ EndCustomer
    \/ ReturnDataset

GeneratorSpec == GeneratorInit /\ [][GeneratorNext]_vars

(***************************************************************************)
(* Properties of RFMScore.segment (SegmentSpec)                            *)
(***************************************************************************)

C2_NeverCantLoseThem == segment_ret # "Can't Lose Them"

\* C2 witness: segment was read on a triple that satisfies rule 6.
C2_Witness ==
    /\ segment_ret # ""
    /\ r_score <= 2 /\ f_score >= 4 /\ m_score >= 4

\* C3: the scores (2,4,3) have segment "At Risk".
C3_AtRisk ==
    (segment_ret # "" /\ r_score = 2 /\ f_score = 4 /\ m_score = 3)
        => segment_ret = "At Risk"

\* C4: the scores (4,5,4) have segment "Loyal Customers".
C4_Loyal ==
    (segment_ret # "" /\ r_score = 4 /\ f_score = 5 /\ m_score = 4)
        => segment_ret = "Loyal Customers"

\* C5: the scores (5,5,5) have segment "Champions" and the scores (1,1,1)
\* have segment "Lost".
C5_ChampionsAndLost ==
    /\ (segment_ret # "" /\ r_score = 5 /\ f_score = 5 /\ m_score = 5)
           => segment_ret = "Champions"
    /\ (segment_ret # "" /\ r_score = 1 /\ f_score = 1 /\ m_score = 1)
           => segment_ret = "Lost"

\* C5 witness: segment was read on (1,1,1).
C5_Witness ==
    /\ r_score = 1 /\ f_score = 1 /\ m_score = 1
    /\ segment_ret = "Lost"

(***************************************************************************)
(* Properties of RFMAnalyzer (Spec)                                        *)
(***************************************************************************)

\* calculate_rfm_scores ran last and returned.
ScoresReturned == last_call = "calculate_rfm_scores" /\ raised = ""

\* Every record of the list carries a datetime under "transaction_date".
AllDated ==
    \A i \in 1..Len(transactions) :
        transactions[i].transaction_date.kind = "datetime"

\* The positions of the records of customer c.
RecordsOf(c) == {i \in 1..Len(transactions) : transactions[i].customer_id = c}

\* The value of a record's total_amount, in cents (nothing when it has none).
AmountValue(t) ==
    CASE t.total_amount.kind = "Decimal" -> t.total_amount.v
      [] t.total_amount.kind = "float" -> t.total_amount.v
      [] t.total_amount.kind = "int" -> 100 * t.total_amount.v
      [] OTHER -> 0

\* The sum of the amounts of the records at the positions in S.
RECURSIVE AmountSum(_)
AmountSum(S) ==
    IF S = {} THEN 0
    ELSE LET i == CHOOSE j \in S : TRUE
         IN  AmountValue(transactions[i]) + AmountSum(S \ {i})

\* C6: every RFMScore that calculate_rfm_scores emits has r_score, f_score
\* and m_score in {1,2,3,4,5}.
C6_ScoresInRange ==
    \A i \in 1..Len(scores) :
        /\ scores[i].r_score \in 1..5
        /\ scores[i].f_score \in 1..5
        /\ scores[i].m_score \in 1..5

\* C6 witness: a result with three customers in which the raw recency score
\* reaches both ends, so that the inversion yields 1 and 5.
C6_Witness ==
    /\ ScoresReturned
    /\ Len(scores) = 3
    /\ \E i, j \in 1..Len(scores) :
          scores[i].r_score = 1 /\ scores[j].r_score = 5

\* C7: within one result, a customer with a recency no greater than
\* another's has an r_score no smaller, and one with a frequency (monetary)
\* no greater has an f_score (m_score) no greater.
C7_ScoresMonotone ==
    \A i, j \in 1..Len(scores) :
        /\ scores[i].recency <= scores[j].recency
               => scores[i].r_score >= scores[j].r_score
        /\ scores[i].frequency <= scores[j].frequency
               => scores[i].f_score <= scores[j].f_score
        /\ scores[i].monetary <= scores[j].monetary
               => scores[i].m_score <= scores[j].m_score

\* C7 witness: two emitted customers, one strictly more recent, more
\* frequent and of greater monetary value, with strictly greater scores.
C7_Witness ==
    /\ ScoresReturned
    /\ \E i, j \in 1..Len(scores) :
          /\ scores[i].recency < scores[j].recency
          /\ scores[i].r_score > scores[j].r_score
          /\ scores[i].frequency > scores[j].frequency
          /\ scores[i].f_score > scores[j].f_score
          /\ scores[i].monetary > scores[j].monetary
          /\ scores[i].m_score > scores[j].m_score

\* C8: when every record carries a transaction_date, calculate_rfm_scores
\* returns one RFMScore for each distinct non-empty customer_id of the list,
\* none twice, and none for any other id; records with an empty or missing
\* customer_id produce no score.
C8_OneScorePerCustomer ==
    (last_call = "calculate_rfm_scores" /\ AllDated) =>
        /\ raised = ""
        /\ \A c \in CustomerIds :
              RecordsOf(c) # {} =>
                  Cardinality({i \in 1..Len(scores) : scores[i].customer_id = c}) = 1
        /\ \A i \in 1..Len(scores) :
              /\ RecordsOf(scores[i].customer_id) # {}
              /\ scores[i].customer_id \notin {"", NoneId}

\* C8 witness: a dated list holding two records of one customer and a
\* record with an empty or missing customer_id was scored, giving one score.
C8_Witness ==
    /\ ScoresReturned
    /\ AllDated
    /\ \E c \in CustomerIds : Cardinality(RecordsOf(c)) = 2
    /\ RecordsOf("") # {} \/ RecordsOf(NoneId) # {}
    /\ Len(scores) = 1

\* C9 (as claimed): the infinite-recency skip is never taken, whatever the
\* transaction list.
C9_SkipNeverTaken == skipped = {}

\* C9 (amended): when every record carries a transaction_date, the
\* infinite-recency skip is not taken and every id of the id set is scored.
C9_SkipNeverTakenWhenDated ==
    (last_call = "calculate_rfm_scores" /\ AllDated) =>
        /\ skipped = {}
        /\ \A i \in 1..Len(transactions) :
              (transactions[i].customer_id \notin {"", NoneId}) =>
                  \E k \in 1..Len(scores) :
                      scores[k].customer_id = transactions[i].customer_id

\* C9 witness: a dated list with three customers was scored.
C9_Witness ==
    /\ ScoresReturned
    /\ AllDated
    /\ \A c \in CustomerIds : RecordsOf(c) # {}
    /\ Len(scores) = 3

DatesOf(c) ==
    {transactions[i].transaction_date.t :
        i \in {j \in RecordsOf(c) :
                 transactions[j].transaction_date.kind = "datetime"}}

\* The greatest of a non-empty set of numbers.
Greatest(S) == CHOOSE d \in S : \A e \in S : e <= d

\* n is the whole-day count of a difference of ticks.
IsWholeDays(n, ticks) ==
    n * TicksPerDay <= ticks /\ ticks < (n + 1) * TicksPerDay

\* calculate_recency returned the whole days from the latest dated record
\* of its customer to reference_date, negative when that date is later.
RecencyOfLatest ==
    /\ raised = ""
    /\ ~ret.inf
    /\ IsWholeDays(ret.n, reference_date - Greatest(DatesOf(last_arg)))
    /\ reference_date < Greatest(DatesOf(last_arg)) => ret.n < 0

\* C11 (as claimed): for a customer with at least one dated transaction,
\* calculate_recency returns the whole-day count of reference_date - d, d
\* the greatest transaction_date among that customer's records only, and a
\* negative number when reference_date precedes d.
C11_RecencyOfLatest ==
    (last_call = "calculate_recency" /\ DatesOf(last_arg) # {})
        => RecencyOfLatest

\* C11 (amended): the same, for a customer with at least one transaction
\* dated after datetime.min and no record whose transaction_date is None.
C11_RecencyOfLatestNoneFree ==
    (/\ last_call = "calculate_recency"
     /\ DatesOf(last_arg) # {}
     /\ Greatest(DatesOf(last_arg)) > DatetimeMin
     /\ \A i \in RecordsOf(last_arg) :
            transactions[i].transaction_date.kind # "None")
        => RecencyOfLatest

\* C11 witness: calculate_recency ran for a customer whose older record
\* comes first and whose latest record is dated after reference_date, in a
\* list that holds another customer's record, and returned a negative count.
C11_Witness ==
    /\ last_call = "calculate_recency"
    /\ Len(transactions) = 3
    /\ transactions[1].customer_id = last_arg
    /\ transactions[1].transaction_date = DateAt(1)
    /\ \E i \in RecordsOf(last_arg) :
          transactions[i].transaction_date = DateAt(5)
    /\ \E i \in 1..Len(transactions) :
          transactions[i].customer_id \in CustomerIds \ {last_arg}
    /\ ret = Returned(-1)

\* C12: for a customer id that no record of the list carries,
\* calculate_frequency returns 0, calculate_monetary returns 0.00,
\* calculate_recency returns float('inf') without raising, and
\* calculate_rfm_scores emits no RFMScore for that id.
C12_AbsentCustomer ==
    /\ (last_call = "calculate_frequency" /\ RecordsOf(last_arg) = {})
           => ret = Returned(0)
    /\ (last_call = "calculate_monetary" /\ RecordsOf(last_arg) = {})
           => ret = Returned(0)
    /\ (last_call = "calculate_recency" /\ RecordsOf(last_arg) = {})
           => (ret = Infinity /\ raised = "")
    /\ \A c \in CustomerIds :
           RecordsOf(c) = {} =>
               \A i \in 1..Len(scores) : scores[i].customer_id # c

\* C12 witness: calculate_frequency ran for a customer absent from a list
\* of three records of two other customers.
C12_Witness ==
    /\ last_call = "calculate_frequency"
    /\ RecordsOf(last_arg) = {}
    /\ Len(transactions) = 3
    /\ \A c \in CustomerIds \ {last_arg} : RecordsOf(c) # {}
    /\ ret = Returned(0)

\* C14: calculate_rfm_scores returns an empty list without raising when
\* the transaction list is empty or holds no record with a non-empty
\* customer_id.
C14_NoCustomerNoScore ==
    (/\ last_call = "calculate_rfm_scores"
     /\ \A i \in 1..Len(transactions) :
            transactions[i].customer_id \in {"", NoneId})
        => (raised = "" /\ scores = <<>>)

\* C14 witness: calculate_rfm_scores ran on a list of two records, one
\* with an empty customer_id and one with none.
C14_Witness ==
    /\ last_call = "calculate_rfm_scores"
    /\ Len(transactions) = 2
    /\ transactions[1].customer_id = ""
    /\ transactions[2].customer_id = NoneId
    /\ raised = ""
    /\ scores = <<>>

(***************************************************************************)
(* The two-customer scenario and the frame of the calls (ScenarioSpec)     *)
(***************************************************************************)

\* C13: with A's three transactions 2, 10 and 20 days before reference_date
\* (100.00, 150.00, 200.00) and B's single one 180 days before (20.00), in
\* any order, calculate_rfm_scores emits two scores, A's with recency 2,
\* frequency 3 and monetary 450.00, B's with recency 180, frequency 1 and
\* monetary 20.00, and each of A's three scores exceeds B's.
C13_TwoCustomerScenario ==
    (last_call = "calculate_rfm_scores" /\ Len(transactions) = 4) =>
        /\ raised = ""
        /\ Len(scores) = 2
        /\ \E a, b \in 1..Len(scores) :
              /\ scores[a].customer_id = "A"
              /\ scores[a].recency = 2
              /\ scores[a].frequency = 3
              /\ scores[a].monetary = 450 * CentsPerUnit
              /\ scores[b].customer_id = "B"
              /\ scores[b].recency = 180
              /\ scores[b].frequency = 1
              /\ scores[b].monetary = 20 * CentsPerUnit
              /\ scores[a].r_score > scores[b].r_score
              /\ scores[a].f_score > scores[b].f_score
              /\ scores[a].m_score > scores[b].m_score

\* C13 witness: the four records, B's first, were scored and B's score
\* came out first.
C13_Witness ==
    /\ ScoresReturned
    /\ Len(transactions) = 4
    /\ transactions[1].customer_id = "B"
    /\ Len(scores) = 2
    /\ scores[1].customer_id = "B"
    /\ scores[2].frequency = 3

\* The RFMScore values of a list, as a set.
ScoreSet(list) == {list[i] : i \in 1..Len(list)}

\* C17: no call changes the transaction list, any of its records or
\* reference_date, and every call of calculate_rfm_scores that returns gives
\* the set of RFMScore values that the list determines, whatever the order
\* in which the customer ids were taken and whatever was called before.
C17_CallsLeaveInputs ==
    [][/\ transactions' = transactions
       /\ reference_date' = reference_date
       /\ (last_call' = "calculate_rfm_scores" /\ raised' = "") =>
              \A customer_ids \in id_lists(transactions) :
                  ScoreSet(calculate_rfm_scores(transactions, customer_ids).scores)
                      = ScoreSet(scores')]_vars

\* C17 witness: get_segment_summary has run on the two scores that
\* calculate_rfm_scores returned for the four records, which are still there.
C17_Witness ==
    /\ last_call = "get_segment_summary"
    /\ raised = ""
    /\ Len(scores) = 2
    /\ Len(transactions) = 4
    /\ \A t \in ScenarioRecords :
          \E i \in 1..Len(transactions) : transactions[i] = t
    /\ reference_date = ScenarioReferenceDate

(***************************************************************************)
(* Properties of get_segment_summary (SummarySpec)                         *)
(***************************************************************************)

\* The label of a score object.
LabelOf(s) == segment(s.r_score, s.f_score, s.m_score)

\* The positions of the scores with a label.
ScoresWith(label) == {i \in 1..Len(scores) : LabelOf(scores[i]) = label}

\* The sum of the counts of the summary over a set of its keys.
RECURSIVE CountSum(_)
CountSum(keys) ==
    IF keys = {} THEN 0
    ELSE LET k == CHOOSE l \in keys : TRUE
         IN  summary[k].count + CountSum(keys \ {k})

\* C15: get_segment_summary applied to an empty list of scores returns an
\* empty mapping and raises no error.
C15_EmptySummary ==
    (last_call = "get_segment_summary" /\ scores = <<>>)
        => (raised = "" /\ DOMAIN summary = {})

\* C16: for a non-empty list of N scores, get_segment_summary returns a
\* mapping whose keys are exactly the segment labels that occur in the
\* list, each with a count equal to the number of scores of that segment,
\* never 0, and the counts sum to N.
C16_SummaryCounts ==
    (last_call = "get_segment_summary" /\ scores # <<>>) =>
        /\ raised = ""
        /\ DOMAIN summary = {LabelOf(scores[i]) : i \in 1..Len(scores)}
        /\ \A l \in DOMAIN summary :
              /\ summary[l].count = Cardinality(ScoresWith(l))
              /\ summary[l].count >= 1
        /\ CountSum(DOMAIN summary) = Len(scores)

\* C16 witness: the summary of three scores, two of them "Champions" with
\* different score triples, has two keys.
C16_Witness ==
    /\ last_call = "get_segment_summary"
    /\ Len(scores) = 3
    /\ \E i, j \in ScoresWith("Champions") :
          scores[i].r_score # scores[j].r_score
    /\ Cardinality(DOMAIN summary) = 2
    /\ summary["Champions"].count = 2

(***************************************************************************)
(* Properties of Transaction (TransactionSpec)                             *)
(***************************************************************************)

\* C18: every Transaction accepted (constructed without ValueError) has a
\* non-empty customer_id, a transaction_date, and a total_amount that is
\* not negative.
C18_AcceptedIsValidated ==
    tx_state = "accepted" =>
        /\ fields.customer_id \notin {"", NoneId}
        /\ fields.transaction_date.kind = "datetime"
        /\ total_amount.read => total_amount.cents >= 0

(***************************************************************************)
(* Properties of generate_dataset (GeneratorSpec)                          *)
(***************************************************************************)

\* C19: generate_dataset(num_customers=c, num_transactions=t) returns
\* exactly c customers and exactly t transactions, whatever the random
\* behaviours and per-customer transaction counts.
C19_ExactCounts ==
    pc = "done" =>
        /\ dataset.customers = args.num_customers
        /\ dataset.transactions = args.num_transactions

\* C20: when start_date <= end_date, every transaction generate_dataset
\* produces is dated within [start_date, end_date], whatever the random
\* recency and days_ago, ideal recencies beyond the range included.
C20_DatesInRange ==
    (pc # "" /\ args.start_date <= args.end_date) =>
        \A date \in txn_dates :
            args.start_date <= date /\ date <= args.end_date

\* C20 witness: a dataset was returned for a range of half a day, which
\* every recency exceeds; its transactions are all dated start_date.
C20_Witness ==
    /\ pc = "done"
    /\ args.end_date - args.start_date = 1
    /\ dataset.transactions >= 2
    /\ txn_dates = {args.start_date}

(***************************************************************************)
(* Further properties of RFMScore.segment (SegmentSpec)                    *)
(***************************************************************************)

SegmentLabels ==
    {"Champions", "Loyal Customers", "Potential Loyalists", "New Customers",
     "At Risk", "Can't Lose Them", "Hibernating", "Lost", "About to Sleep",
     "Promising", "Need Attention"}

\* C25: segment returns a label of the table for every triple of {1..5}^3,
\* and a label is returned for at least one triple exactly when it is not
\* "Can't Lose Them": rule 6 is the only dead rule.
C25_OnlyRuleSixDead ==
    /\ segment_ret # "" => segment_ret \in SegmentLabels
    /\ segment(r_score, f_score, m_score) \in SegmentLabels
    /\ \A label \in SegmentLabels :
          (\E r, f, m \in ScoreRange : segment(r, f, m) = label)
              <=> label # "Can't Lose Them"

\* C25 witness: the segment of (5, 3, 1) was read and is "Promising", the
\* label with the fewest triples.
C25_Witness ==
    /\ r_score = 5
    /\ f_score = 3
    /\ m_score = 1
    /\ segment_ret = "Promising"

(***************************************************************************)
(* Properties of the scoring of a population (PopulationSpec)              *)
(***************************************************************************)

\* The values of one metric over the scores returned.
RecencyValues == [i \in 1..Len(scores) |-> scores[i].recency]
FrequencyValues == [i \in 1..Len(scores) |-> scores[i].frequency]
MonetaryValues == [i \in 1..Len(scores) |-> scores[i].monetary]

\* The 1..5 score of a value v against four boundaries b, v and b on the
\* scale of the boundaries.
ScoreAgainst(v, b) ==
    IF v <= b[1] THEN 1
    ELSE IF v <= b[2] THEN 2
    ELSE IF v <= b[3] THEN 3
    ELSE IF v <= b[4] THEN 4
    ELSE 5

\* C21: _calculate_score maps a value v and boundaries b0..b3 to 1 if
\* v <= b0, else 2 if v <= b1, else 3 if v <= b2, else 4 if v <= b3, else
\* 5, and calculate_rfm_scores applies it to each metric with that
\* metric's own boundaries (the recency score being inverted afterwards).
C21_ScoreMapping ==
    ScoresReturned =>
        \A i \in 1..Len(scores) :
            /\ 6 - scores[i].r_score
                   = ScoreAgainst(scaled(scores[i].recency), boundaries.recency)
            /\ scores[i].f_score
                   = ScoreAgainst(scaled(scores[i].frequency), boundaries.frequency)
            /\ scores[i].m_score
                   = ScoreAgainst(scaled(scores[i].monetary), boundaries.monetary)

\* C21 witness: four customers were scored; one has the monetary score 4
\* and one the raw recency score 4, and the boundaries of frequency and
\* monetary differ.
C21_Witness ==
    /\ ScoresReturned
    /\ Len(scores) = 4
    /\ \E i \in 1..Len(scores) : scores[i].m_score = 4
    /\ \E i \in 1..Len(scores) : 6 - scores[i].r_score = 4
    /\ boundaries.frequency # boundaries.monetary

OrderStatistic(column, j) ==
    CHOOSE v \in {column[i] : i \in 1..Len(column)} :
        /\ Cardinality({i \in 1..Len(column) : column[i] < v}) <= j
        /\ j < Cardinality({i \in 1..Len(column) : column[i] <= v})

\* The quantile of a column at p = k/5 by linear interpolation, times 5:
\* h = (n - 1) * k / 5, x[floor(h)] + (h - floor(h)) * (x[floor(h) + 1] -
\* x[floor(h)]).
InterpolatedBoundary(column, k) ==
    LET n == Len(column)
        h5 == (n - 1) * k
        fl == h5 \div 5
        below == OrderStatistic(column, fl)
        above == OrderStatistic(column, min(fl + 1, n - 1))
    IN  5 * below + (h5 % 5) * (above - below)

\* C23: the k-th boundary (k = 1..4) of each metric is the quantile at
\* p = k/5 of that metric's own column by linear interpolation between the
\* order statistics around h = (n - 1) * k / 5; with one customer all four
\* boundaries equal the single value.
C23_BoundariesInterpolated ==
    (ScoresReturned /\ scores # <<>>) =>
        /\ \A k \in 1..4 :
               /\ boundaries.recency[k] = InterpolatedBoundary(RecencyValues, k)
               /\ boundaries.frequency[k] = InterpolatedBoundary(FrequencyValues, k)
               /\ boundaries.monetary[k] = InterpolatedBoundary(MonetaryValues, k)
        /\ Len(scores) = 1 =>
               \A k \in 1..4 :
                   /\ boundaries.recency[k] = 5 * scores[1].recency
                   /\ boundaries.frequency[k] = 5 * scores[1].frequency
                   /\ boundaries.monetary[k] = 5 * scores[1].monetary

\* C23 witness: four customers were scored and a boundary of monetary lies
\* strictly between two of their values.
C23_Witness ==
    /\ ScoresReturned
    /\ Len(scores) = 4
    /\ \E k \in 1..4 :
           \A i \in 1..Len(scores) :
               boundaries.monetary[k] # 5 * scores[i].monetary

\* The least value of a column.
Least(column) == OrderStatistic(column, 0)

\* C27: in every non-empty result each customer holding the least value of
\* a metric has the raw score 1 for it, so some customer has r_score 5,
\* some f_score 1 and some m_score 1.
C27_MinimumScoresOne ==
    (ScoresReturned /\ scores # <<>>) =>
        /\ \A i \in 1..Len(scores) :
               /\ scores[i].recency = Least(RecencyValues) => scores[i].r_score = 5
               /\ scores[i].frequency = Least(FrequencyValues) => scores[i].f_score = 1
               /\ scores[i].monetary = Least(MonetaryValues) => scores[i].m_score = 1
        /\ \E i \in 1..Len(scores) : scores[i].r_score = 5
        /\ \E i \in 1..Len(scores) : scores[i].f_score = 1
        /\ \E i \in 1..Len(scores) : scores[i].m_score = 1

\* C27 witness: three customers were scored, none of the three metrics is
\* the same for all, and the holders of the least values have the scores.
C27_Witness ==
    /\ ScoresReturned
    /\ Len(scores) = 3
    /\ \E i, j \in 1..Len(scores) : scores[i].recency < scores[j].recency
    /\ \E i, j \in 1..Len(scores) : scores[i].frequency < scores[j].frequency
    /\ \E i, j \in 1..Len(scores) : scores[i].monetary < scores[j].monetary
    /\ \E i \in 1..Len(scores) :
           scores[i].frequency = Least(FrequencyValues) /\ scores[i].f_score = 1

\* All entries of a column are the same.
AllSame(column) == \A i, j \in 1..Len(column) : column[i] = column[j]

\* C28: when all customers scored share the value of a metric each of them
\* has the raw score 1 for it (f_score 1, m_score 1 or r_score 5); an
\* f_score or m_score of 5 takes a value strictly above the
\* 80th-percentile boundary.
C28_TiesScoreOne ==
    ScoresReturned =>
        /\ AllSame(RecencyValues) => \A i \in 1..Len(scores) : scores[i].r_score = 5
        /\ AllSame(FrequencyValues) => \A i \in 1..Len(scores) : scores[i].f_score = 1
        /\ AllSame(MonetaryValues) => \A i \in 1..Len(scores) : scores[i].m_score = 1
        /\ \A i \in 1..Len(scores) :
               /\ scores[i].f_score = 5
                      => scaled(scores[i].frequency) > boundaries.frequency[4]
               /\ scores[i].m_score = 5
                      => scaled(scores[i].monetary) > boundaries.monetary[4]

\* C28 witness: two customers with two transactions each, so both have
\* f_score 1 on a frequency above 1, and one of them has m_score 5.
C28_Witness ==
    /\ ScoresReturned
    /\ Len(scores) = 2
    /\ \A i \in 1..Len(scores) : scores[i].frequency = 2 /\ scores[i].f_score = 1
    /\ \E i \in 1..Len(scores) : scores[i].m_score = 5

(***************************************************************************)
(* A single customer (Spec), the order of the records (PermutationSpec)    *)
(***************************************************************************)

ListPermutations ==
    {p \in [1..Len(transactions) -> 1..Len(transactions)] :
        \A i, j \in 1..Len(transactions) : p[i] = p[j] => i = j}

\* The transaction list rearranged by p.
Permuted(p) == [i \in 1..Len(transactions) |-> transactions[p[i]]]

\* The call that ended gave what calculate_rfm_scores gives on every
\* rearrangement of the list, whatever the order of the ids: the same
\* exception or the same set of RFMScore values, segments included.
SameOnEveryPermutation ==
    \A p \in ListPermutations :
        \A customer_ids \in id_lists(Permuted(p)) :
            LET out == calculate_rfm_scores(Permuted(p), customer_ids)
            IN  /\ out.exc = raised
                /\ ScoreSet(out.scores) = ScoreSet(scores)
                /\ {LabelOf(sc) : sc \in ScoreSet(out.scores)}
                       = {LabelOf(sc) : sc \in ScoreSet(scores)}

\* Some customer has a record without transaction_date and a record dated
\* datetime.min.
UndatedTiesWithMin ==
    \E i, j \in 1..Len(transactions) :
        /\ transactions[i].customer_id = transactions[j].customer_id
        /\ truthy_id(transactions[i].customer_id)
        /\ transactions[i].transaction_date.kind = "absent"
        /\ transactions[j].transaction_date = DateAt(DatetimeMin)

\* C29 (as claimed): the set of RFMScore values that calculate_rfm_scores
\* returns is the same for every permutation of the transaction list.
C29_PermutationInvariant ==
    last_call = "calculate_rfm_scores" => SameOnEveryPermutation

\* C29 (amended): the same, for a list in which no customer has both a
\* record without transaction_date and a record dated datetime.min.
C29_PermutationInvariantNoTie ==
    (last_call = "calculate_rfm_scores" /\ ~UndatedTiesWithMin)
        => SameOnEveryPermutation

\* C29 witness: three different records of two customers, one of them
\* without a date, were scored, and two scores came back.
C29_Witness ==
    /\ ScoresReturned
    /\ ~UndatedTiesWithMin
    /\ Len(transactions) = 3
    /\ \A i, j \in 1..Len(transactions) :
           transactions[i] = transactions[j] => i = j
    /\ \E i \in 1..Len(transactions) :
           transactions[i].transaction_date.kind = "absent"
    /\ Cardinality(customer_id_set(transactions)) = 2
    /\ Len(scores) = 2
    /\ scores[1].r_score # scores[2].r_score

====
